---------------------------- MODULE Spec2Model ----------------------------
(***************************************************************************)
(* Model of the chat-bot server of packages/chat-bot/src/index.ts:         *)
(* the upgrade handler, the per-connection 'message' handler and the       *)
(* asynchronous pipeline it awaits (getProjectQuestions,                   *)
(* analyzeUserMessage, generateResponse).                                  *)
(*                                                                         *)
(* Node runs the handlers on one thread: a handler runs without            *)
(* interruption until it awaits an external call, so each action below is  *)
(* one such run-to-next-await segment.  The 'message' callback is an async *)
(* function whose promise the socket never waits for, so every inbound     *)
(* frame starts its own turn at once.                                      *)
(*                                                                         *)
(* Strings are sequences of text tokens (a token is a character or a       *)
(* fixed piece of text), so concatenation is \o.                           *)
(***************************************************************************)
EXTENDS Integers, Sequences, FiniteSets, TLC

VARIABLES
    upgrades,   \* the request paths of the upgrade requests the server has seen
    sessions,   \* SessionManager.sessions: session id -> [projectId, history]
    conns,      \* sockets accepted by handleUpgrade: [sid, projectId, state]
    turns,      \* one entry per inbound frame, in arrival order: the handler invocation
    out         \* out[c]: the frames ws.send put on the wire of connection c

vars == <<upgrades, sessions, conns, turns, out>>

-----------------------------------------------------------------------------
(* Bounds *)

MaxUpgrades == 2    \* upgrade requests
MaxFrames == 2      \* inbound frames over all connections
MaxWindowFrames == 4    \* inbound frames of the single connection of SpecWindow

-----------------------------------------------------------------------------
(* Strings *)

QuestionsToken == <<"q", "u", "e", "s", "t", "i", "o", "n", "s">>

Upper == [c \in {"q", "u", "e", "s", "t", "i", "o", "n"} |->
            CASE c = "q" -> "Q" [] c = "u" -> "U" [] c = "e" -> "E"
              [] c = "s" -> "S" [] c = "t" -> "T" [] c = "i" -> "I"
              [] c = "o" -> "O" [] c = "n" -> "N"]

\* String.prototype.toLowerCase, token by token
LowerChar(c) ==
    IF \E l \in DOMAIN Upper : Upper[l] = c
    THEN CHOOSE l \in DOMAIN Upper : Upper[l] = c
    ELSE c

toLowerCase(s) == [i \in 1..Len(s) |-> LowerChar(s[i])]

RECURSIVE Join(_, _)
\* Array.prototype.join
Join(ss, sep) ==
    IF ss = <<>> THEN <<>>
    ELSE IF Len(ss) = 1 THEN ss[1]
    ELSE ss[1] \o sep \o Join(Tail(ss), sep)

-----------------------------------------------------------------------------
(* Values crossing the wire *)

\* A JavaScript value in the place of message.content
Str(s) == [k |-> "string", s |-> s]
Undefined == [k |-> "undefined", s |-> <<>>]
Number == [k |-> "number", s |-> <<>>]

\* Message texts: "questions", "QUESTIONS" and " questions " (padded with a
\* space on either side)
Contents ==
    { QuestionsToken,
      <<"Q", "U", "E", "S", "T", "I", "O", "N", "S">>,
      <<" ">> \o QuestionsToken \o <<" ">> }

\* Inbound payloads by what JSON.parse makes of them:
\*   invalid: not JSON; null: the JSON value null; number: a JSON number;
\*   object: a JSON object with the given type and content fields
\*   (type "undefined": no type field).
Payloads ==
    { [json |-> "invalid", type |-> "undefined", content |-> Undefined],
      [json |-> "null", type |-> "undefined", content |-> Undefined],
      [json |-> "number", type |-> "undefined", content |-> Undefined],
      [json |-> "object", type |-> "undefined", content |-> Undefined],
      [json |-> "object", type |-> "ping", content |-> Undefined],
      [json |-> "object", type |-> "message", content |-> Undefined],
      [json |-> "object", type |-> "message", content |-> Number] }
    \cup { [json |-> "object", type |-> "message", content |-> Str(s)] : s \in Contents }


-----------------------------------------------------------------------------
(* The backend and the generative model, at their interface *)

Q(id, text) == [id |-> id, text |-> <<text>>]

\* GET /projects/{id}: the questions the backend holds for each project
ProjectQuestions ==
    [p \in {"p1", "p2"} |->
        IF p = "p1"
        THEN <<Q("q1", "Should X?"), Q("q2", "Should Y?"), Q("q3", "Should Z?")>>
        ELSE <<>>]

\* Request paths, split at "/": /project/p1/chat, /project/p2/chat,
\* /project//chat, /project/p1
Paths ==
    { <<"project", "p1", "chat">>, <<"project", "p2", "chat">>,
      <<"project", "", "chat">>, <<"project", "p1">> }

\* Text of a claim-extraction reply, by what JSON.parse makes of it:
\* hasContent and content name the type (or boolean value) of the field,
\* "undefined" when the field is missing.
ExtractResponses ==
    { [json |-> "invalid", hasContent |-> "undefined", content |-> "undefined"],
      [json |-> "null", hasContent |-> "undefined", content |-> "undefined"],
      [json |-> "object", hasContent |-> "undefined", content |-> "undefined"],
      [json |-> "object", hasContent |-> "undefined", content |-> "string"],
      [json |-> "object", hasContent |-> "string", content |-> "string"],
      [json |-> "object", hasContent |-> "true", content |-> "undefined"],
      [json |-> "object", hasContent |-> "true", content |-> "number"],
      [json |-> "object", hasContent |-> "false", content |-> "undefined"],
      [json |-> "object", hasContent |-> "true", content |-> "string"] }

NoResponse == [json |-> "none", hasContent |-> "undefined", content |-> "undefined"]

St(stanceId, confidence) == [stanceId |-> stanceId, confidence |-> confidence]
AQ(id, text, stances) == [id |-> id, text |-> <<text>>, stances |-> stances]

\* analyzedQuestions of a POST /projects/{id}/comments response
\* (confidence in hundredths)
AnalyzedChoices ==
    { <<>>,
      <<AQ("q1", "Should X?", <<>>)>>,
      <<AQ("q1", "Should X?", <<>>), AQ("q2", "Should Y?", <<St("pro", 60), St("con", 30)>>)>>,
      <<AQ("q1", "Should X?", <<St("pro", 40)>>), AQ("q2", "Should Y?", <<St("con", 90)>>),
        AQ("q3", "Should Z?", <<St("pro", 60)>>)>>,
      <<AQ("q1", "Should X?", <<St("pro", 90)>>), AQ("q2", "Should Y?", <<St("con", 90)>>)>> }

GenTexts == { <<"generated reply">> }

\* The fixed Japanese sentences of the source, in English
NoQuestionsText == <<"No questions have been set yet.">>
ApologyText ==
    <<"Sorry, an error occurred while generating the response.">>
ListHeader == <<"Question list:", "\n">>
InvalidFormat == <<"Invalid message format">>
SessionNotFound == <<"Session not found">>

-----------------------------------------------------------------------------
(* SessionManager *)

ChatMessage(frame, sender, content) ==
    [frame |-> frame, sender |-> sender, content |-> content]

\* sessionManager.createSession(projectId): the store with the new session;
\* the new id is Len(store) + 1
createSession(store, projectId) ==
    Append(store, [projectId |-> projectId, history |-> <<>>])

\* sessionManager.getSession(sessionId) finds a session
hasSession(store, sid) == sid \in DOMAIN store

\* sessionManager.addMessage(sessionId, content, sender): the store afterwards
addMessage(store, sid, msg) ==
    IF hasSession(store, sid)
    THEN [store EXCEPT ![sid].history = Append(@, msg)]
    ELSE store

-----------------------------------------------------------------------------
(* Pure helpers of index.ts *)

\* the pattern with [^\/]* for [^\/]+
PathMatchesEmptyId(path) ==
    /\ Len(path) = 3
    /\ path[1] = "project"
    /\ path[3] = "chat"

\* pathname.match(/^\/project\/([^\/]+)\/chat$/)
PathMatches(path) ==
    /\ Len(path) = 3
    /\ path[1] = "project"
    /\ path[2] # ""
    /\ path[3] = "chat"

RECURSIVE NumberedFrom(_, _)
\* questions.map((q, i) => `${i + 1}. ${q.text}`), as the list of lines
NumberedFrom(questions, i) ==
    IF questions = <<>> THEN <<>>
    ELSE <<(<<ToString(i + 1), ". ">> \o Head(questions).text)>>
            \o NumberedFrom(Tail(questions), i + 1)

\* the list numbered `${i}`
formatQuestionsListFromZero(questions) ==
    IF Len(questions) = 0
    THEN NoQuestionsText
    ELSE ListHeader \o Join(NumberedFrom(questions, -1), <<"\n">>)

formatQuestionsList(questions) ==
    IF Len(questions) = 0
    THEN NoQuestionsText
    ELSE ListHeader \o Join(NumberedFrom(questions, 0), <<"\n">>)

\* history.slice(-5)
HistoryWindow == 5

\* history.slice(0, 5)
FirstN(h, n) == IF Len(h) <= n THEN h ELSE SubSeq(h, 1, n)

LastN(h, n) == IF Len(h) <= n THEN h ELSE SubSeq(h, Len(h) - n + 1, Len(h))

\* the slice of a history taken before the current message was appended
HistorySliceBeforeLast(h) ==
    IF h = <<>> THEN <<>> ELSE LastN(SubSeq(h, 1, Len(h) - 1), HistoryWindow)

\* history.slice(-5), where both prompts take their history from
HistorySlice(h) == LastN(h, HistoryWindow)

\* formatChatHistory(history.slice(-5)): the entries the claim-extraction
\* prompt lists, one line each
ExtractionPrompt(h) == HistorySlice(h)

\* one element of the contents of the generation request; frame names the
\* ChatMessage it was made from (0: none)
PromptTurn(msg) ==
    [role |-> IF msg.sender = "user" THEN "user" ELSE "model",
     text |-> msg.content, frame |-> msg.frame]

\* the leading turn: directives, question list and context block
InstructionTurn == [role |-> "user", text |-> Str(<<"(instructions)">>), frame |-> 0]

\* messages: the instruction, the history turns, the user message
GenerationMessages(h, userMessage) ==
    <<InstructionTurn>>
        \o [i \in 1..Len(HistorySlice(h)) |-> PromptTurn(HistorySlice(h)[i])]
        \o <<[role |-> "user", text |-> userMessage, frame |-> 0]>>

\* a call wrapped in a retry that always takes its second attempt
IssueTwice(calls, name) == Append(Append(calls, name), name)

\* an external call is issued (and awaited)
Issue(calls, name) == Append(calls, name)

\* a catch block that hands on whatever text there is
GenerationResultUncaught(ok, text) == text

\* response.text(), or the apology of the catch block
GenerationResult(ok, text) == IF ok THEN text ELSE ApologyText

-----------------------------------------------------------------------------
(* The 'message' handler up to its first await *)

\* a handler that lets a SyntaxError pass for a frame to ignore
ParseNeverThrows(p) == FALSE

\* JSON.parse(data) throws a SyntaxError
ParseThrows(p) == p.json = "invalid"

\* message.type throws a TypeError: message is null
TypeAccessThrows(p) == p.json = "null"

\* message.type === 'message'
IsMessageFrame(p) == p.json = "object" /\ p.type = "message"

\* a handler without the guard
SessionNeverAbsent(store, sid) == FALSE

\* !userMessage, !session: addMessage or getSession found no session
SessionAbsent(store, sid) == ~hasSession(store, sid)

\* message.content.toLowerCase() throws a TypeError: content is no string
LowerCaseThrows(content) == content.k # "string"

\* message.content === 'questions'
IsQuestionsCommandExact(content) == content.s = QuestionsToken

\* message.content.toLowerCase() === 'questions'
IsQuestionsCommand(content) == toLowerCase(content.s) = QuestionsToken

-----------------------------------------------------------------------------
(* analyzeUserMessage and generateResponse, between awaits *)

\* the checks without the one on content
ValidationThrowsLax(r) ==
    \/ r.json = "invalid"
    \/ r.json = "null"
    \/ r.hasContent \notin {"true", "false"}

\* JSON.parse(responseText) or one of the two format checks throws
ValidationThrows(r) ==
    \/ r.json = "invalid"                              \* SyntaxError
    \/ r.json = "null"                                 \* TypeError on .hasContent
    \/ r.hasContent \notin {"true", "false"}           \* typeof hasContent !== 'boolean'
    \/ r.hasContent = "true" /\ r.content # "string"   \* content must be a string

\* hasContent alone decides
HasClaimUnchecked(r) == r.hasContent = "true"

\* the reply passed the checks and hasContent is true: the comment is posted
HasClaim(r) ==
    /\ r.json # "throw"
    /\ ~ValidationThrows(r)
    /\ r.hasContent = "true"

RECURSIVE RelatedQuestions(_)
\* analyzedQuestions.map(first stance or null).filter(not null)
RelatedQuestions(analyzed) ==
    IF analyzed = <<>> THEN <<>>
    ELSE LET q == Head(analyzed)
             rest == RelatedQuestions(Tail(analyzed))
         IN  IF q.stances = <<>> THEN rest
             ELSE <<[id |-> q.id, text |-> q.text,
                     stanceId |-> q.stances[1].stanceId,
                     confidence |-> q.stances[1].confidence]>> \o rest

\* the callback with >= for >
AtLeastAsConfident(prev, current) ==
    IF current.confidence >= prev.confidence THEN current ELSE prev

\* the callback of reduce
MoreConfident(prev, current) ==
    IF current.confidence > prev.confidence THEN current ELSE prev

RECURSIVE Reduce(_, _)
Reduce(prev, rest) ==
    IF rest = <<>> THEN prev
    ELSE Reduce(MoreConfident(prev, Head(rest)), Tail(rest))

\* analysis.relatedQuestions.reduce(...), on a non-empty list
PrimaryQuestion(related) == Reduce(Head(related), Tail(related))

NoPrimary == [id |-> "", text |-> <<>>, stanceId |-> "", confidence |-> 0]

-----------------------------------------------------------------------------
(* State *)

\* The handler invocation for one inbound frame.  pc names the external call
\* it awaits; calls lists the external calls it has issued; fetched tells how
\* getProjectQuestions ended (forgotten once the prompt is assembled, kept
\* by a finished shortcut turn, whose reply was formatted from it); extract,
\* related, primary and context are the locals of analyzeUserMessage and
\* generateResponse; extractPrompt and messages are the history entries of
\* the claim-extraction prompt and the contents of the generation request;
\* generated tells how the generation call ended; overlapped tells whether
\* another frame of the connection touched the history while this turn was
\* unfinished; outcome tells how the handler ended.
NewTurn(c, p) ==
    [conn |-> c, payload |-> p, pc |-> "done", path |-> "none", calls |-> <<>>,
     fetched |-> "none", extract |-> NoResponse, related |-> <<>>,
     primary |-> NoPrimary, context |-> FALSE, outcome |-> "ignored",
     extractPrompt |-> <<>>, messages |-> <<>>, generated |-> "none",
     overlapped |-> FALSE]

\* one sessionId variable shared by all connections, left at the first session
TurnSessionShared(t) == 1

\* sessionId of the closure the turn runs in
TurnSession(t) == conns[t.conn].sid

\* session.history, the live array
LiveHistory(sid) == IF hasSession(sessions, sid) THEN sessions[sid].history ELSE <<>>

InFlight(t) == t.pc # "done"

\* the turns as they are once a frame that touches the history has arrived on
\* connection c: the unfinished turns of c have company
Overlap(c) ==
    [g \in DOMAIN turns |->
        IF turns[g].conn = c /\ InFlight(turns[g])
        THEN [turns[g] EXCEPT !.overlapped = TRUE]
        ELSE turns[g]]

HasCompany(c) == \E g \in DOMAIN turns : turns[g].conn = c /\ InFlight(turns[g])

SendAlways(c, frame) == [out EXCEPT ![c] = Append(@, frame)]

\* ws.send(JSON.stringify(frame)): a frame sent on a closed socket goes nowhere
Send(c, frame) ==
    IF conns[c].state = "open"
    THEN [out EXCEPT ![c] = Append(@, frame)]
    ELSE out

ErrorFrame(f, text) == [frame |-> f, type |-> "error", content |-> Str(text)]
MessageFrame(msg) == [frame |-> msg.frame, type |-> "message", content |-> msg.content]

Init ==
    /\ upgrades = <<>>
    /\ sessions = <<>>
    /\ conns = <<>>
    /\ turns = <<>>
    /\ out = <<>>

-----------------------------------------------------------------------------
(* Actions *)

\* server.on('upgrade')
Upgrade(path) ==
    /\ Len(upgrades) < MaxUpgrades
    /\ upgrades' = Append(upgrades, path)
    /\ IF PathMatches(path)
       THEN /\ sessions' = createSession(sessions, path[2])
            /\ conns' = Append(conns, [sid |-> Len(sessions) + 1,
                                       projectId |-> path[2], state |-> "open"])
            /\ out' = Append(out, <<>>)
       ELSE UNCHANGED <<sessions, conns, out>>      \* socket.destroy()
    /\ UNCHANGED turns

\* the peer closes the socket, or the socket fails
Close(c) ==
    /\ c \in DOMAIN conns
    /\ conns[c].state = "open"
    /\ conns' = [conns EXCEPT ![c].state = "closed"]
    /\ UNCHANGED <<upgrades, sessions, turns, out>>

\* ws.on('message'): an inbound frame arrives; the handler runs to its first
\* await (getProjectQuestions) or to its end
Handle(c, p) ==
    /\ c \in DOMAIN conns
    /\ conns[c].state = "open"
    /\ LET f == Len(turns) + 1
           sid == conns[c].sid
           t == NewTurn(c, p)
           user == ChatMessage(f, "user", p.content)
       IN  IF ParseThrows(p) \/ TypeAccessThrows(p)
           THEN /\ turns' = Append(turns, [t EXCEPT !.outcome = "error"])
                /\ out' = Send(c, ErrorFrame(f, InvalidFormat))
                /\ UNCHANGED sessions
           ELSE IF ~IsMessageFrame(p)
           THEN /\ turns' = Append(turns, t)
                /\ UNCHANGED <<sessions, out>>
           ELSE IF SessionAbsent(sessions, sid)
           THEN /\ turns' = Append(turns, [t EXCEPT !.outcome = "error"])
                /\ out' = Send(c, ErrorFrame(f, SessionNotFound))
                /\ sessions' = addMessage(sessions, sid, user)
           ELSE IF LowerCaseThrows(p.content)
           THEN /\ sessions' = addMessage(sessions, sid, user)
                /\ turns' = Append(Overlap(c), [t EXCEPT !.outcome = "error"])
                /\ out' = Send(c, ErrorFrame(f, InvalidFormat))
           ELSE /\ sessions' = addMessage(sessions, sid, user)
                /\ turns' = Append(Overlap(c),
                      [t EXCEPT !.pc = "questions",
                                !.outcome = "pending",
                                !.overlapped = HasCompany(c),
                                !.calls = Issue(<<>>, "questions"),
                                !.path = IF IsQuestionsCommand(p.content)
                                         THEN "shortcut" ELSE "generate"])
                /\ UNCHANGED out
    /\ UNCHANGED <<upgrades, conns>>

Receive(c, p) ==
    /\ Len(turns) < MaxFrames
    /\ Handle(c, p)

\* sessionManager.addMessage(sessionId, response, 'bot'); ws.send(...)
Finish(f, t, response) ==
    LET         bot == ChatMessage(f, "bot", Str(response))
    IN  /\ sessions' = addMessage(sessions, TurnSession(t), bot)
        /\ out' = Send(t.conn, MessageFrame(bot))
        /\ turns' = [turns EXCEPT ![f] =
                        [NewTurn(t.conn, t.payload) EXCEPT
                            !.path = t.path, !.calls = t.calls,
                            !.fetched = t.fetched, !.generated = t.generated,
                            !.outcome = "reply"]]

\* generateResponse from the assembly of the prompt to model.generateContent
StartGeneration(f, t) ==
    /\ turns' = [turns EXCEPT ![f] =
                    [t EXCEPT !.pc = "generate", !.fetched = "none", !.related = <<>>,
                              !.extractPrompt = <<>>,
                              !.messages = GenerationMessages(LiveHistory(TurnSession(t)),
                                                              t.payload.content),
                              !.calls = Issue(@, "generate")]]
    /\ UNCHANGED <<sessions, out>>

\* getProjectQuestions returns: the GET /projects/{id} succeeded or failed
QuestionsReturn(f, ok) ==
    /\ f \in DOMAIN turns
    /\ turns[f].pc = "questions"
    /\ LET t == [turns[f] EXCEPT !.fetched = IF ok THEN "ok" ELSE "failed"]
           questions == IF ok THEN ProjectQuestions[conns[t.conn].projectId] ELSE <<>>
       IN  IF t.path = "shortcut"
           THEN Finish(f, t, formatQuestionsList(questions))
           ELSE /\ turns' = [turns EXCEPT ![f] =
                               [t EXCEPT !.pc = "extract",
                                         !.extractPrompt =
                                             ExtractionPrompt(LiveHistory(TurnSession(t))),
                                         !.calls = Issue(@, "extract")]]
                /\ UNCHANGED <<sessions, out>>
    /\ UNCHANGED <<upgrades, conns>>

Thrown == [json |-> "throw", hasContent |-> "undefined", content |-> "undefined"]

\* the claim-extraction call returns text r, or throws
ExtractReturn(f, r) ==
    /\ f \in DOMAIN turns
    /\ turns[f].pc = "extract"
    /\ LET t == [turns[f] EXCEPT !.extract = r]
       IN  IF HasClaim(r)
           THEN /\ turns' = [turns EXCEPT ![f] =
                               [t EXCEPT !.pc = "comment", !.calls = Issue(@, "comment")]]
                /\ UNCHANGED <<sessions, out>>
           ELSE StartGeneration(f, t)
    /\ UNCHANGED <<upgrades, conns>>

\* the POST /projects/{id}/comments returns analyzedQuestions, or fails
CommentReturn(f, ok, analyzed) ==
    /\ f \in DOMAIN turns
    /\ turns[f].pc = "comment"
    /\ LET t == turns[f]
           related == IF ok THEN RelatedQuestions(analyzed) ELSE <<>>
       IN  IF Len(related) > 0
           THEN /\ turns' = [turns EXCEPT ![f] =
                               [t EXCEPT !.related = related,
                                         !.primary = PrimaryQuestion(related),
                                         !.pc = "stance",
                                         !.calls = Issue(@, "stance")]]
                /\ UNCHANGED <<sessions, out>>
           ELSE StartGeneration(f, t)
    /\ UNCHANGED <<upgrades, conns>>

\* the GET .../stance-analysis returns a report, or fails
StanceReturn(f, ok) ==
    /\ f \in DOMAIN turns
    /\ turns[f].pc = "stance"
    /\ StartGeneration(f, [turns[f] EXCEPT !.context = ok])
    /\ UNCHANGED <<upgrades, conns>>

\* the response-generation call returns text, or fails
GenerateReturn(f, ok, text) ==
    /\ f \in DOMAIN turns
    /\ turns[f].pc = "generate"
    /\ Finish(f, [turns[f] EXCEPT !.generated = IF ok THEN "ok" ELSE "failed"],
               GenerationResult(ok, text))
    /\ UNCHANGED <<upgrades, conns>>

Next ==
    \/ \E path \in Paths : Upgrade(path)
    \/ \E c \in DOMAIN conns : Close(c)
    \/ \E c \in DOMAIN conns, p \in Payloads : Receive(c, p)
    \/ \E f \in DOMAIN turns, ok \in BOOLEAN : QuestionsReturn(f, ok)
    \/ \E f \in DOMAIN turns, r \in ExtractResponses \cup {Thrown} : ExtractReturn(f, r)
    \/ \E f \in DOMAIN turns, ok \in BOOLEAN, a \in AnalyzedChoices : CommentReturn(f, ok, a)
    \/ \E f \in DOMAIN turns, ok \in BOOLEAN : StanceReturn(f, ok)
    \/ \E f \in DOMAIN turns, ok \in BOOLEAN, text \in GenTexts : GenerateReturn(f, ok, text)

Spec == Init /\ [][Next]_vars

\* an external call awaited by a turn of connection c returns or fails
Returns(c) ==
    \E f \in DOMAIN turns :
        /\ turns[f].conn = c
        /\ \/ \E ok \in BOOLEAN : QuestionsReturn(f, ok)
           \/ \E r \in ExtractResponses \cup {Thrown} : ExtractReturn(f, r)
           \/ \E ok \in BOOLEAN, a \in AnalyzedChoices : CommentReturn(f, ok, a)
           \/ \E ok \in BOOLEAN : StanceReturn(f, ok)
           \/ \E ok \in BOOLEAN, text \in GenTexts : GenerateReturn(f, ok, text)

\* The server once it has accepted two connections for project p1
PairPath == <<"project", "p1", "chat">>

InitPair ==
    /\ upgrades = <<PairPath, PairPath>>
    /\ sessions = createSession(createSession(<<>>, PairPath[2]), PairPath[2])
    /\ conns = <<[sid |-> 1, projectId |-> PairPath[2], state |-> "open"],
                 [sid |-> 2, projectId |-> PairPath[2], state |-> "open"]>>
    /\ turns = <<>>
    /\ out = << <<>>, <<>> >>

NextPair ==
    \/ \E c \in DOMAIN conns : Close(c)
    \/ \E c \in DOMAIN conns, p \in Payloads : Receive(c, p)
    \/ \E c \in DOMAIN conns : Returns(c)

\* No call has a timeout.  SpecHang: the calls of the first connection may
\* hang for ever while every call of the second ends.  SpecFair: every call
\* ends.
SpecHang == InitPair /\ [][NextPair]_vars /\ WF_vars(Returns(2))

SpecFair == InitPair /\ [][NextPair]_vars /\ WF_vars(Returns(1)) /\ WF_vars(Returns(2))

\* handleConnection(ws, sessionId, projectId) called for a session id the
\* store never created (0), next to the connections the server accepts
OrphanSid == 0

InitOrphan ==
    /\ upgrades = << <<"project", "p1", "chat">> >>
    /\ sessions = <<>>
    /\ conns = <<[sid |-> OrphanSid, projectId |-> "p1", state |-> "open"]>>
    /\ turns = <<>>
    /\ out = << <<>> >>

SpecOrphan == InitOrphan /\ [][Next]_vars

\* One accepted connection for project p1 whose peer sends "message" frames
\* only: the list command and a free-text message
InitWindow ==
    /\ upgrades = <<PairPath>>
    /\ sessions = createSession(<<>>, PairPath[2])
    /\ conns = <<[sid |-> 1, projectId |-> PairPath[2], state |-> "open"]>>
    /\ turns = <<>>
    /\ out = << <<>> >>

WindowPayloads ==
    { [json |-> "object", type |-> "message", content |-> Str(s)] :
          s \in {QuestionsToken, <<" ">> \o QuestionsToken \o <<" ">>} }

ReceiveWindow(p) ==
    /\ Len(turns) < MaxWindowFrames
    /\ Handle(1, p)

\* every call succeeds; the extraction finds a claim or none, the backend
\* relates the claim to three questions
WindowExtracts ==
    { [json |-> "object", hasContent |-> "false", content |-> "undefined"],
      [json |-> "object", hasContent |-> "true", content |-> "string"] }

WindowAnalyzed ==
    { <<AQ("q1", "Should X?", <<St("pro", 40)>>), AQ("q2", "Should Y?", <<St("con", 90)>>),
        AQ("q3", "Should Z?", <<St("pro", 60)>>)>> }

NextWindow ==
    \/ \E p \in WindowPayloads : ReceiveWindow(p)
    \/ \E f \in DOMAIN turns : QuestionsReturn(f, TRUE)
    \/ \E f \in DOMAIN turns, r \in WindowExtracts : ExtractReturn(f, r)
    \/ \E f \in DOMAIN turns, a \in WindowAnalyzed : CommentReturn(f, TRUE, a)
    \/ \E f \in DOMAIN turns : StanceReturn(f, TRUE)
    \/ \E f \in DOMAIN turns, text \in GenTexts : GenerateReturn(f, TRUE, text)

SpecWindow == InitWindow /\ [][NextWindow]_vars

TypeOK ==
    /\ Len(upgrades) <= MaxUpgrades
    /\ Len(turns) <= MaxFrames
    /\ Len(out) = Len(conns)

-----------------------------------------------------------------------------
(* Vocabulary of the properties *)

Frames == DOMAIN turns

SameConnection(f1, f2) == turns[f1].conn = turns[f2].conn

SidOf(f) == conns[turns[f].conn].sid

ConnOpen(f) == conns[turns[f].conn].state = "open"

\* the history of the session the turn's connection is bound to
HistoryOf(f) ==
    IF hasSession(sessions, SidOf(f)) THEN sessions[SidOf(f)].history ELSE <<>>

\* the messages any session stores for frame f
StoredFor(f) ==
    { m \in UNION { {s.history[i] : i \in DOMAIN s.history} :
                        s \in {sessions[x] : x \in DOMAIN sessions} } : m.frame = f }

\* where the history holds the message of that frame and sender, 0 if nowhere
Pos(h, f, sender) ==
    IF \E i \in DOMAIN h : h[i].frame = f /\ h[i].sender = sender
    THEN CHOOSE i \in DOMAIN h : h[i].frame = f /\ h[i].sender = sender
    ELSE 0

\* the frames sent to the peer for inbound frame f, in order
OutFor(f) == SelectSeq(out[turns[f].conn], LAMBDA fr : fr.frame = f)

-----------------------------------------------------------------------------
(* C1 *)

\* C1: within one connection turns never overlap: when a later frame of a
\* connection has entered the handler, the turn of every earlier frame of that
\* connection has finished.
TurnsNeverOverlap ==
    \A f1, f2 \in Frames :
        f1 < f2 /\ SameConnection(f1, f2) => turns[f1].pc = "done"

(* C2 *)

\* C2: when two message frames of one connection both got replies, the
\* history holds the bot reply to the earlier one before the user message of
\* the later one.
HistoryInArrivalOrder ==
    \A f1, f2 \in Frames :
        /\ f1 < f2
        /\ SameConnection(f1, f2)
        /\ turns[f1].outcome = "reply"
        /\ turns[f2].outcome = "reply"
        => Pos(HistoryOf(f1), f1, "bot") < Pos(HistoryOf(f2), f2, "user")

(* C3 *)

\* C3: a "message" frame on an existing session whose connection is open, once
\* its turn has ended, has a bot ChatMessage in the history and exactly one
\* {type:"message"} frame on the wire.
MessageFrameAnswered ==
    \A f \in Frames :
        /\ turns[f].payload.json = "object"
        /\ turns[f].payload.type = "message"
        /\ hasSession(sessions, SidOf(f))
        /\ ConnOpen(f)
        /\ turns[f].pc = "done"
        => /\ Pos(HistoryOf(f), f, "bot") > 0
           /\ Len(SelectSeq(OutFor(f), LAMBDA fr : fr.type = "message")) = 1

(* C4 *)

\* C4: an error frame is sent only for malformed JSON or for a "message"
\* frame addressed to an unknown session.
ErrorOnlyForProtocolError ==
    \A f \in Frames :
        (\E i \in DOMAIN OutFor(f) : OutFor(f)[i].type = "error")
        => \/ turns[f].payload.json = "invalid"
           \/ /\ turns[f].payload.json = "object"
              /\ turns[f].payload.type = "message"
              /\ ~hasSession(sessions, SidOf(f))

(* C5 *)

\* a claim-extraction reply that is not valid JSON, or omits hasContent, or
\* has a non-boolean hasContent, or has hasContent true with a non-string
\* content, or has hasContent false
NotAClaim(r) ==
    /\ r.json \in {"invalid", "null", "object"}
    /\ \/ r.json = "invalid"
       \/ r.hasContent = "undefined"
       \/ r.hasContent \notin {"true", "false"}
       \/ r.hasContent = "true" /\ r.content # "string"
       \/ r.hasContent = "false"

\* C5: a turn whose claim-extraction reply is no claim has an empty analysis
\* result and issues neither the comment POST nor the stance-analysis fetch.
ExtractionDegrades ==
    \A f \in Frames :
        NotAClaim(turns[f].extract)
        => /\ turns[f].related = <<>>
           /\ turns[f].primary = NoPrimary
           /\ \A i \in DOMAIN turns[f].calls : turns[f].calls[i] \notin {"comment", "stance"}

\* a turn went on to generation after a reply with hasContent true and a
\* content that is no string
ExtractionDegradesWitness ==
    \E f \in Frames :
        /\ turns[f].pc = "generate"
        /\ turns[f].extract.hasContent = "true"
        /\ turns[f].extract.content = "number"

(* C6 *)

ProjectOf(f) == conns[turns[f].conn].projectId

\* the content of the bot message stored for frame f
ReplyOf(f) == HistoryOf(f)[Pos(HistoryOf(f), f, "bot")].content

RECURSIVE Lines(_, _)
\* "<i>. <text>" for the questions from the i-th on, one per line
Lines(qs, i) ==
    IF i > Len(qs) THEN <<>>
    ELSE <<ToString(i), ". ">> \o qs[i].text
            \o (IF i < Len(qs) THEN <<"\n">> ELSE <<>>) \o Lines(qs, i + 1)

NumberedList(qs) == ListHeader \o Lines(qs, 1)

OnlyFetchesQuestions(f) ==
    \A i \in DOMAIN turns[f].calls : turns[f].calls[i] = "questions"

\* C6 as stated: a shortcut turn makes no call but the questions fetch, and
\* its reply is the no-questions sentence when the project has no questions
\* and the numbered list of the project's questions otherwise.
ShortcutReplyFromProject ==
    \A f \in Frames :
        turns[f].path = "shortcut"
        => /\ OnlyFetchesQuestions(f)
           /\ turns[f].pc = "done"
              => ReplyOf(f) = Str(IF Len(ProjectQuestions[ProjectOf(f)]) = 0
                                  THEN NoQuestionsText
                                  ELSE NumberedList(ProjectQuestions[ProjectOf(f)]))

\* C6 amended: a shortcut turn makes no call but the questions fetch, and its
\* reply is the no-questions sentence when the fetch failed or returned no
\* questions, and the numbered list of the fetched questions otherwise.
ShortcutReplyFromFetch ==
    \A f \in Frames :
        turns[f].path = "shortcut"
        => /\ OnlyFetchesQuestions(f)
           /\ turns[f].pc = "done"
              => ReplyOf(f) = Str(IF turns[f].fetched = "failed"
                                     \/ Len(ProjectQuestions[ProjectOf(f)]) = 0
                                  THEN NoQuestionsText
                                  ELSE NumberedList(ProjectQuestions[ProjectOf(f)]))

\* a shortcut turn replied with the three questions of project p1
ShortcutReplyWitness ==
    \E f \in Frames :
        /\ turns[f].path = "shortcut"
        /\ turns[f].pc = "done"
        /\ turns[f].fetched = "ok"
        /\ ReplyOf(f) = Str(<<"Question list:", "\n", "1", ". ", "Should X?", "\n",
                              "2", ". ", "Should Y?", "\n", "3", ". ", "Should Z?">>)

(* C7 *)

IsSpace(c) == c \in {" ", "\n", "\t"}

RECURSIVE TrimStart(_)
TrimStart(s) ==
    IF s # <<>> /\ IsSpace(Head(s)) THEN TrimStart(Tail(s)) ELSE s

RECURSIVE TrimEnd(_)
TrimEnd(s) ==
    IF s # <<>> /\ IsSpace(s[Len(s)]) THEN TrimEnd(SubSeq(s, 1, Len(s) - 1)) ELSE s

\* the string without its leading and trailing whitespace (the handler does
\* not trim; the rule as stated does)
Trim(s) == TrimEnd(TrimStart(s))

\* the turn of a "message" frame with a string content that is past the
\* questions fetch
PastFetch(f) ==
    /\ turns[f].payload.json = "object"
    /\ turns[f].payload.type = "message"
    /\ turns[f].payload.content.k = "string"
    /\ hasSession(sessions, SidOf(f))
    /\ turns[f].pc # "questions"

RanPipeline(f) == \E i \in DOMAIN turns[f].calls : turns[f].calls[i] = "extract"

\* C7 as stated: the turn bypasses analysis and generation exactly when the
\* trimmed, lower-cased content is "questions".
ShortcutIffTrimmedToken ==
    \A f \in Frames :
        PastFetch(f)
        => (RanPipeline(f) <=> toLowerCase(Trim(turns[f].payload.content.s)) # QuestionsToken)

\* C7 amended: the turn bypasses analysis and generation exactly when the
\* lower-cased content, untrimmed, is "questions".
ShortcutIffLowerCasedToken ==
    \A f \in Frames :
        PastFetch(f)
        => (RanPipeline(f) <=> toLowerCase(turns[f].payload.content.s) # QuestionsToken)

\* "QUESTIONS" was answered without the pipeline while " questions " ran it
ShortcutIffWitness ==
    /\ \E f \in Frames :
        /\ PastFetch(f)
        /\ turns[f].payload.content.s # QuestionsToken
        /\ turns[f].outcome = "reply"
        /\ ~RanPipeline(f)
    /\ \E f \in Frames :
        /\ PastFetch(f)
        /\ Trim(turns[f].payload.content.s) = QuestionsToken
        /\ RanPipeline(f)

(* C8 *)

IsMessagePayload(p) == p.json = "object" /\ p.type = "message"

\* the step takes in a new inbound frame
Arrives == Len(turns') = Len(turns) + 1

\* the turn of a "message" frame for a session id the store does not hold has
\* ended at once with the single frame {error:"Session not found"}, without an
\* external call, a reply or a stored message
UnknownSessionTurn ==
    \A f \in Frames :
        IsMessagePayload(turns[f].payload) /\ ~hasSession(sessions, SidOf(f))
        => /\ turns[f].pc = "done"
           /\ turns[f].calls = <<>>
           /\ StoredFor(f) = {}
           /\ OutFor(f) = <<ErrorFrame(f, SessionNotFound)>>

\* taking in such a frame leaves the store as it was and the connection open
UnknownSessionStep ==
    /\ Arrives
    /\ IsMessagePayload(turns'[Len(turns')].payload)
    /\ ~hasSession(sessions, conns[turns'[Len(turns')].conn].sid)
    => /\ sessions' = sessions
       /\ conns' = conns
       /\ conns'[turns'[Len(turns')].conn].state = "open"

\* C8: a "message" frame for a session id that is not in the store leaves the
\* store unchanged, gets exactly one {error:"Session not found"} frame, makes
\* no external call, gets no reply, and leaves the connection open.
UnknownSessionRejected == []UnknownSessionTurn /\ [][UnknownSessionStep]_vars

\* two "message" frames in a row were rejected on the connection of the
\* unknown session, which is still open
UnknownSessionWitness ==
    /\ Len(turns) = 2
    /\ \A f \in Frames :
        /\ turns[f].conn = 1
        /\ IsMessagePayload(turns[f].payload)
        /\ turns[f].payload.content.k = "string"
    /\ ~hasSession(sessions, conns[1].sid)
    /\ conns[1].state = "open"
    /\ Len(out[1]) = 2

(* C9 *)

\* C9: a payload that parses as JSON and whose type is not "message" is
\* ignored: no stored message, no external call, no outbound frame.
NonMessageIgnored ==
    \A f \in Frames :
        /\ turns[f].payload.json \in {"null", "number", "object"}
        /\ ~IsMessagePayload(turns[f].payload)
        => /\ StoredFor(f) = {}
           /\ turns[f].calls = <<>>
           /\ OutFor(f) = <<>>

(* C10 *)

\* the turn of a payload that is no JSON has ended with the single frame
\* {error:"Invalid message format"}, without a stored message or an external
\* call, and a later "message" frame with a string content on the same, still
\* open connection has its reply once its turn has ended
MalformedTurn ==
    \A f \in Frames :
        turns[f].payload.json = "invalid"
        => /\ turns[f].pc = "done"
           /\ turns[f].calls = <<>>
           /\ StoredFor(f) = {}
           /\ OutFor(f) = <<ErrorFrame(f, InvalidFormat)>>
           /\ \A g \in Frames :
                /\ f < g
                /\ SameConnection(f, g)
                /\ IsMessagePayload(turns[g].payload)
                /\ turns[g].payload.content.k = "string"
                /\ turns[g].pc = "done"
                /\ ConnOpen(g)
                => /\ Pos(HistoryOf(g), g, "bot") > 0
                   /\ Len(SelectSeq(OutFor(g), LAMBDA fr : fr.type = "message")) = 1

\* taking in such a payload changes no session and leaves the connection open
MalformedStep ==
    Arrives /\ turns'[Len(turns')].payload.json = "invalid"
    => /\ sessions' = sessions
       /\ conns' = conns
       /\ conns'[turns'[Len(turns')].conn].state = "open"

\* C10: a payload that fails to parse gets exactly one
\* {error:"Invalid message format"} frame, changes no history, makes no
\* external call and leaves the connection open, so that a later well-formed
\* "message" frame on the connection is answered.
MalformedRejected == []MalformedTurn /\ [][MalformedStep]_vars

\* after a payload that failed to parse, a "message" frame on the same
\* connection got its reply
MalformedWitness ==
    \E f, g \in Frames :
        /\ f < g
        /\ SameConnection(f, g)
        /\ turns[f].payload.json = "invalid"
        /\ turns[g].outcome = "reply"
        /\ ConnOpen(g)
        /\ Len(out[turns[g].conn]) = 2

(* C11 *)

\* C11: a turn whose generation call failed has the apology as its reply,
\* stored as a bot ChatMessage and sent as a {type:"message"} frame, and no
\* error frame is sent for it.
GenerationFailureApologises ==
    \A f \in Frames :
        turns[f].generated = "failed"
        => /\ turns[f].pc = "done"
           /\ Pos(HistoryOf(f), f, "bot") > 0
           /\ ReplyOf(f) = Str(ApologyText)
           /\ \A i \in DOMAIN OutFor(f) :
                OutFor(f)[i] = MessageFrame(ChatMessage(f, "bot", Str(ApologyText)))
           /\ Len(OutFor(f)) <= 1
           /\ ConnOpen(f) => Len(OutFor(f)) = 1

\* the generation call of a turn failed and the apology went out
GenerationFailureWitness ==
    \E f \in Frames :
        /\ turns[f].generated = "failed"
        /\ Len(OutFor(f)) = 1
        /\ OutFor(f)[1].type = "message"
        /\ OutFor(f)[1].content = Str(ApologyText)

(* C12 *)

\* i is the first place of the list that holds its greatest confidence
FirstMaximum(related, i) ==
    /\ \A j \in DOMAIN related : related[j].confidence <= related[i].confidence
    /\ \A j \in 1..(i - 1) : related[j].confidence < related[i].confidence

\* C12: the question whose stance analysis is fetched is the entry of
\* relatedQuestions with the greatest confidence, the first of them in list
\* order when several share it.
PrimaryIsFirstMaximum ==
    \A f \in Frames :
        turns[f].pc = "stance"
        => /\ turns[f].related # <<>>
           /\ \E i \in DOMAIN turns[f].related :
                /\ FirstMaximum(turns[f].related, i)
                /\ turns[f].primary = turns[f].related[i]

\* the confidences 0.4, 0.9, 0.6 selected the second entry
PrimaryWitness ==
    \E f \in Frames :
        /\ turns[f].pc = "stance"
        /\ Len(turns[f].related) = 3
        /\ turns[f].related[1].confidence = 40
        /\ turns[f].related[2].confidence = 90
        /\ turns[f].related[3].confidence = 60
        /\ turns[f].primary.id = "q2"

(* C13 *)

Count(calls, name) == Cardinality({i \in DOMAIN calls : calls[i] = name})

\* C13: no turn issues an external call twice; a turn that replied fetched the
\* questions once, and, when it ran the pipeline, called claim extraction
\* once and generation once.
NoCallRepeated ==
    \A f \in Frames :
        /\ \A name \in {"questions", "extract", "comment", "stance", "generate"} :
                Count(turns[f].calls, name) <= 1
        /\ turns[f].outcome = "reply" => Count(turns[f].calls, "questions") = 1
        /\ turns[f].outcome = "reply" /\ turns[f].path = "generate"
            => /\ Count(turns[f].calls, "extract") = 1
               /\ Count(turns[f].calls, "generate") = 1

\* a turn replied having made each of the five calls once
NoCallRepeatedWitness ==
    \E f \in Frames :
        /\ turns[f].outcome = "reply"
        /\ turns[f].calls = <<"questions", "extract", "comment", "stance", "generate">>

(* C14 *)

\* /project/{projectId}/chat with a non-empty projectId
WellFormedPath(path) ==
    Len(path) = 3 /\ path[1] = "project" /\ path[3] = "chat" /\ path[2] # ""

Accepted == SelectSeq(upgrades, WellFormedPath)

\* C14: the sessions are those of the well-formed upgrade requests, one each,
\* in order and scoped to the requested project; every connection is bound to
\* the one session created for it, no two to the same; a request with another
\* path left no session, no connection and nothing sent.
SessionPerAcceptedUpgrade ==
    /\ Len(sessions) = Len(Accepted)
    /\ Len(conns) = Len(Accepted)
    /\ Len(out) = Len(Accepted)
    /\ \A c \in DOMAIN conns :
        /\ hasSession(sessions, conns[c].sid)
        /\ conns[c].projectId = Accepted[c][2]
        /\ sessions[conns[c].sid].projectId = Accepted[c][2]
        /\ \A d \in DOMAIN conns : conns[d].sid = conns[c].sid => d = c

\* one request was torn down and one accepted
SessionPerUpgradeWitness ==
    /\ Len(upgrades) = 2
    /\ ~WellFormedPath(upgrades[1])
    /\ upgrades[1][2] = ""
    /\ Len(sessions) = 1
    /\ Len(conns) = 1

(* C15 *)

\* every stored message is in the history of the session of the connection
\* its frame arrived on
HistoryIsolated ==
    \A s \in DOMAIN sessions :
        \A i \in DOMAIN sessions[s].history :
            SidOf(sessions[s].history[i].frame) = s

\* a "message" frame with a string content has arrived on a connection other
\* than the first
ArrivedElsewhere(f) ==
    /\ f \in Frames
    /\ turns[f].conn # 1
    /\ IsMessagePayload(turns[f].payload)
    /\ turns[f].payload.content.k = "string"

\* its reply is stored, and was sent if the connection is open
Answered(f) ==
    /\ f \in Frames
    /\ turns[f].outcome = "reply"
    /\ Pos(HistoryOf(f), f, "bot") > 0
    /\ ConnOpen(f) => Len(SelectSeq(OutFor(f), LAMBDA fr : fr.type = "message")) = 1

\* C15: whatever the calls of the first connection do, hanging for ever
\* included, every "message" frame of another connection is answered once its
\* own calls have returned, and no turn writes to the history of a session
\* other than its own.
HungCallStallsOnlyItsTurn ==
    /\ []HistoryIsolated
    /\ \A f \in 1..MaxFrames : ArrivedElsewhere(f) ~> Answered(f)

\* a frame that arrived on the second connection after a frame of the first
\* has its reply while the turn of the first still awaits its first call
HungCallWitness ==
    \E f, g \in Frames :
        /\ f < g
        /\ turns[f].conn = 1
        /\ turns[f].pc = "questions"
        /\ turns[g].conn = 2
        /\ turns[g].outcome = "reply"
        /\ Len(OutFor(g)) = 1

(* C16 *)

\* a step of the server seen from its closed connections: nothing more is sent
\* to the peer, no further frame is taken from it, and the close itself leaves
\* every turn as it was
ClosedStaysSilent ==
    /\ \A c \in DOMAIN conns :
          conns[c].state = "closed" =>
              /\ conns'[c].state = "closed"
              /\ out'[c] = out[c]
              /\ Arrives => turns'[Len(turns')].conn # c
    /\ conns' # conns => turns' = turns

\* the turn awaits a call and its connection has closed
ClosedInFlight(f) ==
    /\ f \in Frames
    /\ InFlight(turns[f])
    /\ ~ConnOpen(f)

\* the turn ran to its end: its reply is stored and nothing was sent for it
Discarded(f) ==
    /\ f \in Frames
    /\ turns[f].outcome = "reply"
    /\ turns[f].calls[Len(turns[f].calls)] \in {"questions", "generate"}
    /\ Pos(HistoryOf(f), f, "bot") > 0
    /\ OutFor(f) = <<>>

\* C16: when a connection closes while one of its turns is in flight, the turn
\* is not cancelled: it goes on through its remaining calls to its end, nothing
\* is sent to the peer for it, and no further inbound frame of that connection
\* is processed.
ClosedTurnRunsToCompletion ==
    /\ [][ClosedStaysSilent]_vars
    /\ \A f \in 1..MaxFrames : ClosedInFlight(f) ~> Discarded(f)

\* a turn whose connection closed while it was in flight went through all five
\* calls and sent nothing
ClosedTurnWitness ==
    \E f \in Frames :
        /\ ~ConnOpen(f)
        /\ turns[f].outcome = "reply"
        /\ turns[f].calls = <<"questions", "extract", "comment", "stance", "generate">>
        /\ Pos(HistoryOf(f), f, "bot") > 0
        /\ OutFor(f) = <<>>

(* C17 *)

Min(a, b) == IF a <= b THEN a ELSE b

\* the n most recent entries of h, all of h when it has fewer, in stored order
MostRecent(h, n) == [i \in 1..Min(n, Len(h)) |-> h[Len(h) - Min(n, Len(h)) + i]]

\* no prompt a turn has sent holds more than 5 history entries
PromptsCapped ==
    \A f \in Frames :
        /\ Len(turns[f].extractPrompt) <= 5
        /\ Len(turns[f].messages) <= 1 + 5 + 1

\* the step in which turn f sends the claim-extraction prompt
SendsExtraction(f) == turns[f].pc # "extract" /\ turns'[f].pc = "extract"

\* the step in which turn f sends the response-generation prompt
SendsGeneration(f) == turns[f].pc # "generate" /\ turns'[f].pc = "generate"

PromptTakesMostRecent ==
    \A f \in Frames :
        LET h == HistoryOf(f)
            w == MostRecent(h, 5)
            m == turns'[f].messages
        IN  /\ SendsExtraction(f) => turns'[f].extractPrompt = w
            /\ SendsGeneration(f) =>
                  /\ Len(m) = 1 + Min(5, Len(h)) + 1
                  /\ m[1] = InstructionTurn
                  /\ \A i \in 1..Len(w) :
                        /\ m[1 + i].frame = w[i].frame
                        /\ m[1 + i].text = w[i].content
                        /\ m[1 + i].role = "user" <=> w[i].sender = "user"
                  /\ m[Len(m)].role = "user"
                  /\ m[Len(m)].text = turns[f].payload.content

\* C17: every prompt sent to the generative model holds at most 5 history
\* entries, the 5 most recent of the session history (all of them when there
\* are fewer) in stored order; the generation prompt is one instruction turn,
\* these min(5, |history|) history turns, and one final turn with the current
\* user message.
PromptHistoryIsLastFive ==
    /\ []PromptsCapped
    /\ [][PromptTakesMostRecent]_vars

\* a generation prompt of 7 turns and an extraction prompt of 5 entries, both
\* taken from a history longer than 5 whose oldest entry they leave out
PromptWindowWitness ==
    \E f, g \in Frames :
        /\ turns[f].pc = "generate"
        /\ Len(turns[f].messages) = 7
        /\ turns[g].pc = "extract"
        /\ Len(turns[g].extractPrompt) = 5
        /\ Len(HistoryOf(f)) > 5
        /\ turns[f].messages[2].frame # HistoryOf(f)[1].frame
        /\ turns[g].extractPrompt[1] # HistoryOf(g)[1]

(* C18 *)

\* the orders in which a turn can have issued its calls so far
CallOrders ==
    { <<>>,
      <<"questions">>,
      <<"questions", "extract">>,
      <<"questions", "extract", "generate">>,
      <<"questions", "extract", "comment">>,
      <<"questions", "extract", "comment", "generate">>,
      <<"questions", "extract", "comment", "stance">>,
      <<"questions", "extract", "comment", "stance", "generate">> }

CausalOrderKept ==
    \A f \in Frames :
        /\ turns[f].calls \in CallOrders
        \* no call before the user message is in the history
        /\ turns[f].calls # <<>> => Pos(HistoryOf(f), f, "user") > 0
        \* no outbound "message" frame before the bot message is in the history
        /\ (\E i \in DOMAIN OutFor(f) : OutFor(f)[i].type = "message")
               => Pos(HistoryOf(f), f, "bot") > Pos(HistoryOf(f), f, "user")

\* the step in which turn f issues the named call
IssuesCall(f, name) == turns'[f].calls = Append(turns[f].calls, name)

CallIssuedInOrder ==
    \A f \in Frames :
        /\ IssuesCall(f, "comment") =>
              /\ turns[f].pc = "extract"
              /\ turns'[f].extract.json = "object"
              /\ turns'[f].extract.hasContent = "true"
              /\ turns'[f].extract.content = "string"
        /\ IssuesCall(f, "stance") =>
              /\ turns[f].pc = "comment"
              /\ turns'[f].related # <<>>
              /\ \A i \in DOMAIN turns'[f].related :
                    turns'[f].related[i].stanceId \in {"pro", "con"}
        /\ IssuesCall(f, "generate") =>
              /\ turns[f].pc \in {"extract", "comment", "stance"}
              /\ turns'[f].pc = "generate"

\* C18: within a turn the user message is stored before any call; the comment
\* POST is issued only after the extraction returned JSON with hasContent true
\* and a string content; the stance-analysis fetch only after the POST returned
\* a question with a stance entry; the generation call only after the analysis
\* and any stance fetch ended; the bot message is stored before its frame is
\* sent.
CallsInCausalOrder ==
    /\ []CausalOrderKept
    /\ [][CallIssuedInOrder]_vars

\* a turn that went through all five calls and whose reply was stored and sent
CausalOrderWitness ==
    \E f \in Frames :
        /\ turns[f].calls = <<"questions", "extract", "comment", "stance", "generate">>
        /\ turns[f].outcome = "reply"
        /\ Len(OutFor(f)) = 1
        /\ OutFor(f)[1].type = "message"
        /\ Pos(HistoryOf(f), f, "bot") = Pos(HistoryOf(f), f, "user") + 1

(* C19 *)

\* C19: a frame whose processing ended with an error frame has left every
\* session history as it was: no session stores a message for it.
ErrorLeavesHistoryUnchanged ==
    \A f \in Frames :
        (turns[f].outcome = "error" /\ OutFor(f) # <<>>) => StoredFor(f) = {}

(* C20 *)

\* the entry a history holds for the user message of frame f
UserEntry(f) == ChatMessage(f, "user", turns[f].payload.content)

\* a prompt held by a turn that ran alone ends with the turn's own user message
OwnMessageClosesPrompt ==
    \A f \in Frames :
        LET t == turns[f]
            m == t.messages
        IN  ~t.overlapped =>
              /\ t.pc = "extract" =>
                    /\ t.extractPrompt # <<>>
                    /\ t.extractPrompt[Len(t.extractPrompt)] = UserEntry(f)
              /\ t.pc = "generate" =>
                    /\ Len(m) >= 3
                    /\ m[Len(m) - 1].frame = f
                    /\ m[Len(m) - 1].role = "user"
                    /\ m[Len(m) - 1].text = t.payload.content
                    /\ m[Len(m)].role = "user"
                    /\ m[Len(m)].text = t.payload.content

\* the history a prompt is built from holds the turn's user message
PromptBuiltAfterStore ==
    \A f \in Frames :
        (SendsExtraction(f) \/ SendsGeneration(f)) =>
            \E i \in DOMAIN HistoryOf(f) : HistoryOf(f)[i] = UserEntry(f)

\* C20: the history a turn's prompts are built from already holds the turn's
\* user message; when no other frame of the session is processed concurrently,
\* the last history turn of the generation prompt is that message, so the last
\* two turns of the prompt both carry its content.
PromptRepeatsUserMessage ==
    /\ []OwnMessageClosesPrompt
    /\ [][PromptBuiltAfterStore]_vars

\* a turn that ran alone holds a full generation prompt whose last two turns
\* carry its user message
PromptRepeatsWitness ==
    \E f \in Frames :
        /\ turns[f].pc = "generate"
        /\ ~turns[f].overlapped
        /\ Len(turns[f].messages) = 7
        /\ turns[f].messages[6].frame = f
        /\ turns[f].messages[6].text = turns[f].messages[7].text

=============================================================================
